---------------------------- MODULE Spec2Model ----------------------------
(***************************************************************************)
(* Model of src/app.py: the visitor-list cleaning pipeline                 *)
(*   read_excel -> clean_data_us -> generate_visitor_only_us -> download.  *)
(*                                                                         *)
(* A text value is a sequence of one-character strings.  A cell is a       *)
(* record [t, v]: t = "nan" (empty cell / NaN), "str" (text v), "int"      *)
(* (integer whose decimal digits are v) or "float" (a float with integral  *)
(* value whose decimal digits are v; Python prints it as v followed by     *)
(* ".0").                                                                  *)
(***************************************************************************)
EXTENDS Integers, Sequences, FiniteSets, TLC

VARIABLES pc, uploaded, raw_df, cleaned, out_wb, invalid, has_errors, download

vars == <<pc, uploaded, raw_df, cleaned, out_wb, invalid, has_errors, download>>

-----------------------------------------------------------------------------
(* Characters, as Python's str methods and the re module classify them.    *)

LowerSeq == <<"a","b","c","d","e","f","g","h","i","j","k","l","m",
              "n","o","p","q","r","s","t","u","v","w","x","y","z">>

UpperSeq == <<"A","B","C","D","E","F","G","H","I","J","K","L","M",
              "N","O","P","Q","R","S","T","U","V","W","X","Y","Z">>

DigitSeq == <<"0","1","2","3","4","5","6","7","8","9">>

\* Other characters the model uses, each with its code point.
OtherSeq == << <<"\t", 9>>, <<"\n", 10>>, <<" ", 32>>, <<"'", 39>>,
               <<",", 44>>, <<"-", 45>>, <<".", 46>>, <<"/", 47>>,
               <<";", 59>> >>

Range(s) == {s[i] : i \in DOMAIN s}

IndexOf(s, c) == CHOOSE i \in DOMAIN s : s[i] = c

IsLower(c) == c \in Range(LowerSeq)
IsUpper(c) == c \in Range(UpperSeq)
IsCased(c) == IsLower(c) \/ IsUpper(c)

\* \d of the re module
IsDigit(c) == c \in Range(DigitSeq)

\* str.isspace / \s of the re module / what str.strip removes
IsSpace(c) == c \in {" ", "\t", "\n"}

\* ord(c); a multi-character literal carried as one symbol ranks after
\* every single character of the model.
Ord(c) ==
    IF IsDigit(c) THEN 47 + IndexOf(DigitSeq, c)
    ELSE IF IsUpper(c) THEN 64 + IndexOf(UpperSeq, c)
    ELSE IF IsLower(c) THEN 96 + IndexOf(LowerSeq, c)
    ELSE IF \E i \in DOMAIN OtherSeq : OtherSeq[i][1] = c
         THEN OtherSeq[CHOOSE i \in DOMAIN OtherSeq : OtherSeq[i][1] = c][2]
    ELSE 1000

ToUpper(c) == IF IsLower(c) THEN UpperSeq[IndexOf(LowerSeq, c)] ELSE c
ToLower(c) == IF IsUpper(c) THEN LowerSeq[IndexOf(UpperSeq, c)] ELSE c

-----------------------------------------------------------------------------
(* Python string methods on character sequences.                           *)

\* str.upper / str.lower
StrUpper(s) == [i \in DOMAIN s |-> ToUpper(s[i])]
StrLower(s) == [i \in DOMAIN s |-> ToLower(s[i])]

\* str.title: a cased character is upper-cased when the previous character
\* is not cased, lower-cased otherwise.
StrTitle(s) ==
    [i \in DOMAIN s |->
        IF ~IsCased(s[i]) THEN s[i]
        ELSE IF i > 1 /\ IsCased(s[i-1]) THEN ToLower(s[i])
        ELSE ToUpper(s[i])]

RECURSIVE LStrip(_)
LStrip(s) == IF s # <<>> /\ IsSpace(Head(s)) THEN LStrip(Tail(s)) ELSE s

RECURSIVE RStrip(_)
RStrip(s) ==
    IF s # <<>> /\ IsSpace(s[Len(s)]) THEN RStrip(SubSeq(s, 1, Len(s) - 1))
    ELSE s

\* str.strip
Strip(s) == RStrip(LStrip(s))

\* s[-n:] for n > 0
LastN(s, n) == IF Len(s) <= n THEN s ELSE SubSeq(s, Len(s) - n + 1, Len(s))

\* s.endswith(t)
EndsWith(s, t) == t = <<>> \/ (Len(t) <= Len(s) /\ LastN(s, Len(t)) = t)

\* a < b for Python strings: lexicographic by code point
RECURSIVE StrLess(_, _)
StrLess(a, b) ==
    IF b = <<>> THEN FALSE
    ELSE IF a = <<>> THEN TRUE
    ELSE IF Head(a) # Head(b) THEN Ord(Head(a)) < Ord(Head(b))
    ELSE StrLess(Tail(a), Tail(b))

\* re.sub(r"\D", "", s)
DigitsOf(s) == SelectSeq(s, IsDigit)

\* "0" * n
RECURSIVE Zeros(_)
Zeros(n) == IF n <= 0 THEN <<>> ELSE <<"0">> \o Zeros(n - 1)

-----------------------------------------------------------------------------
(* Cells.                                                                  *)

NaN == [t |-> "nan", v |-> <<>>]
Text(s) == [t |-> "str", v |-> s]
IntCell(s) == [t |-> "int", v |-> s]
FloatCell(s) == [t |-> "float", v |-> s]

\* A literal of the source whose characters no rule inspects one by one.
Lit(name) == Text(<<name>>)

\* The value of a worksheet cell that was never written (Python's None).
None == [t |-> "none", v |-> <<>>]

\* pd.isna
IsNa(c) == c.t = "nan"

\* str(x), which is also what Series.astype(str) gives element by element
Str(c) ==
    CASE c.t = "nan" -> <<"n","a","n">>
      [] c.t = "float" -> c.v \o <<".","0">>
      [] OTHER -> c.v


-----------------------------------------------------------------------------
(* Helper functions of the source.                                         *)

\* s.find(" ") for a string that holds a space
FindSpace(s) == CHOOSE i \in DOMAIN s : s[i] = " " /\ \A j \in 1..(i-1) : s[j] # " "

\* split_name splitting at the last space instead of the first.
split_name_last(full_name) ==
    LET s == Strip(Str(full_name)) IN
    IF " " \in Range(s)
    THEN LET i == CHOOSE k \in DOMAIN s : s[k] = " " /\ \A j \in (k+1)..Len(s) : s[j] # " " IN
         <<SubSeq(s, 1, i - 1), SubSeq(s, i + 1, Len(s))>>
    ELSE <<s, <<>>>>

\* split_name: the pair (first, rest) of a name
split_name(full_name) ==
    LET s == Strip(Str(full_name)) IN
    IF " " \in Range(s)
    THEN LET i == FindSpace(s) IN
         <<SubSeq(s, 1, i - 1), SubSeq(s, i + 1, Len(s))>>
    ELSE <<s, <<>>>>

clean_gender(g) ==
    LET v == StrUpper(Strip(Str(g))) IN
    IF v = <<"M">> THEN <<"M","a","l","e">>
    ELSE IF v = <<"F">> THEN <<"F","e","m","a","l","e">>
    ELSE StrTitle(v)

\* The length fix_mobile brings every number to.
MobileLen == 10

\* fix_mobile cutting from the front before looking at trailing zeros.
fix_mobile_cut_first(x) ==
    LET d0 == DigitsOf(Str(x))
        d1 == IF Len(d0) > MobileLen THEN LastN(d0, MobileLen) ELSE d0
    IN  IF Len(d1) < MobileLen THEN Zeros(MobileLen - Len(d1)) \o d1 ELSE d1

\* fix_mobile without the zfill of short numbers.
fix_mobile_no_pad(x) ==
    LET d0 == DigitsOf(Str(x)) IN
    IF Len(d0) > MobileLen
    THEN LET extra == Len(d0) - MobileLen IN
         IF EndsWith(d0, Zeros(extra))
         THEN SubSeq(d0, 1, Len(d0) - extra)
         ELSE LastN(d0, MobileLen)
    ELSE d0

fix_mobile(x) ==
    LET d0 == DigitsOf(Str(x))
        d1 == IF Len(d0) > MobileLen
              THEN LET extra == Len(d0) - MobileLen IN
                   IF EndsWith(d0, Zeros(extra))
                   THEN SubSeq(d0, 1, Len(d0) - extra)
                   ELSE LastN(d0, MobileLen)
              ELSE d0
    IN  IF Len(d1) < MobileLen THEN Zeros(MobileLen - Len(d1)) \o d1 ELSE d1

\* nat_map of clean_data_us, as (key, value) pairs
nat_map ==
    { << <<"c","h","i","n","e","s","e">>, <<"C","h","i","n","a">> >>,
      << <<"s","i","n","g","a","p","o","r","e","a","n">>,
         <<"S","i","n","g","a","p","o","r","e">> >>,
      << <<"m","a","l","a","y","s","i","a","n">>,
         <<"M","a","l","a","y","s","i","a">> >>,
      << <<"i","n","d","i","a","n">>, <<"I","n","d","i","a">> >>,
      << <<"u","s","a">>,
         <<"U","n","i","t","e","d"," ","S","t","a","t","e","s">> >>,
      << <<"u","s">>,
         <<"U","n","i","t","e","d"," ","S","t","a","t","e","s">> >> }

\* Series.replace(nat_map, regex=False): a whole-value lookup
ReplaceNat(s) ==
    IF \E kv \in nat_map : kv[1] = s
    THEN (CHOOSE kv \in nat_map : kv[1] = s)[2]
    ELSE s

\* Step 3 without its final .str.title().
normalize_nationality_no_title(n) == ReplaceNat(StrLower(Strip(Str(n))))

\* step 3: astype(str).str.strip().str.lower().replace(nat_map).str.title()
normalize_nationality(n) == StrTitle(ReplaceNat(StrLower(Strip(Str(n)))))

\* .str.replace(r"[\/,]", ";")
ReplaceDelims(s) == [i \in DOMAIN s |-> IF s[i] \in {"/", ","} THEN ";" ELSE s[i]]

\* Whether position i lies in a whitespace run that touches a ";".
NextToSemicolon(s, i) ==
    \/ \E j \in (i+1)..Len(s) : s[j] = ";" /\ \A k \in i..(j-1) : IsSpace(s[k])
    \/ \E j \in 1..(i-1) : s[j] = ";" /\ \A k \in (j+1)..i : IsSpace(s[k])

\* .str.replace(r"\s*;\s*", ";")
RECURSIVE CollapseFrom(_, _)
CollapseFrom(s, i) ==
    IF i > Len(s) THEN <<>>
    ELSE (IF IsSpace(s[i]) /\ NextToSemicolon(s, i) THEN <<>> ELSE <<s[i]>>)
         \o CollapseFrom(s, i + 1)

CollapseSemicolons(s) == CollapseFrom(s, 1)

\* step 6: the Vehicle Plate Number column
normalize_plate(p) ==
    LET v == Strip(CollapseSemicolons(ReplaceDelims(Str(p)))) IN
    IF v = <<"n","a","n">> THEN <<>> ELSE v

\* .str.replace(r"\.0$", ""): "$" matches at the end of the string and also
\* just before a newline that ends the string.
StripDotZero(s) ==
    IF EndsWith(s, <<".","0">>) THEN SubSeq(s, 1, Len(s) - 2)
    ELSE IF EndsWith(s, <<".","0","\n">>) THEN SubSeq(s, 1, Len(s) - 3) \o <<"\n">>
    ELSE s

\* The number of trailing digits kept of a driver license number.
LicenseKeep == 4

\* step 10: the Driver License Number column
clean_license(d) ==
    LET s0 == IF IsNa(d) THEN <<>> ELSE Str(d) IN
    LastN(DigitsOf(StripDotZero(s0)), LicenseKeep)


-----------------------------------------------------------------------------
(* clean_data_us.  A data frame is [ncols, rows]: rows is a sequence of    *)
(* rows, each a sequence of ncols cells.  After step 1 a row is a record   *)
(* over the eleven column names.                                           *)

\* The number of leading columns clean_data_us keeps and names.
NumColumns == 11

\* The column names assigned in step 1, in order.
ColumnNames ==
    <<"S/N", "Vehicle Plate Number", "Company Full Name", "Full Name",
      "First Name", "Middle and Last Name", "Driver License Number",
      "Nationality (Country Name)", "Gender", "Mobile Number", "Remarks">>

\* Step 1 raises (length mismatch) unless 11 columns remain after df.iloc[:, :11].
RenameRaises(df) == df.ncols < NumColumns

\* Step 1 on one row: keep the first 11 cells and name them.
NameRow(r) ==
    [sn |-> r[1], plate |-> r[2], company |-> r[3], full |-> r[4],
     first |-> r[5], rest |-> r[6], dl |-> r[7], nat |-> r[8],
     gender |-> r[9], mobile |-> r[10], remarks |-> r[11]]

\* The subset cut one column short, df.columns[3:9].
DropSubsetShort(r) == <<r.full, r.first, r.rest, r.dl, r.nat, r.gender>>

\* The cells of df.columns[3:10], Full Name to Mobile Number.
DropSubset(r) == <<r.full, r.first, r.rest, r.dl, r.nat, r.gender, r.mobile>>

\* Step 2: dropna(subset=df.columns[3:10], how="all") keeps a row unless
\* every cell of the subset is missing.
KeepRow(r) == \E i \in DOMAIN DropSubset(r) : ~IsNa(DropSubset(r)[i])

DropBlankRows(rows) == SelectSeq(rows, KeepRow)

\* Step 3 on one row.
NormalizeNatRow(r) == [r EXCEPT !.nat = Text(normalize_nationality(r.nat))]

\* A sort on the name as it is displayed, title-cased.
SortKeyTitled(r) == <<r.company, r.nat, Text(StrTitle(Str(r.full)))>>

\* The sort columns of step 4, as the rows hold them when the sort runs.
SortKey(r) == <<r.company, r.nat, r.full>>

\* Order of two cells of a sort column (text, or missing): missing values
\* go last (na_position="last"), text compares as Python strings.
CellLess(a, b) ==
    IF IsNa(a) THEN FALSE
    ELSE IF IsNa(b) THEN TRUE
    ELSE StrLess(a.v, b.v)

RECURSIVE KeyLess(_, _)
KeyLess(k1, k2) ==
    IF k1 = <<>> THEN FALSE
    ELSE IF CellLess(Head(k1), Head(k2)) THEN TRUE
    ELSE IF CellLess(Head(k2), Head(k1)) THEN FALSE
    ELSE KeyLess(Tail(k1), Tail(k2))

\* Where a stable sort puts r in the sorted sequence s: after every row
\* whose key is not greater.
InsertPos(s, r) ==
    IF \E i \in DOMAIN s : KeyLess(SortKey(r), SortKey(s[i]))
    THEN CHOOSE i \in DOMAIN s :
            /\ KeyLess(SortKey(r), SortKey(s[i]))
            /\ \A j \in 1..(i-1) : ~KeyLess(SortKey(r), SortKey(s[j]))
    ELSE Len(s) + 1

InsertRow(s, r) ==
    LET p == InsertPos(s, r) IN
    SubSeq(s, 1, p - 1) \o <<r>> \o SubSeq(s, p, Len(s))

\* Step 4: sort_values on several columns is a stable (lexsort) sort.
RECURSIVE SortFrom(_, _)
SortFrom(done, todo) ==
    IF todo = <<>> THEN done
    ELSE SortFrom(InsertRow(done, Head(todo)), Tail(todo))

SortRows(rows) == SortFrom(<<>>, rows)

\* str(n) for n >= 0
RECURSIVE Decimal(_)
Decimal(n) ==
    IF n < 10 THEN <<DigitSeq[n + 1]>>
    ELSE Decimal(n \div 10) \o <<DigitSeq[(n % 10) + 1]>>

\* Steps 5 to 10 on the row at position i of the sorted frame.
FinishRow(r, i) ==
    LET full == StrTitle(Str(r.full))
        names == split_name(Text(full))
    IN  [sn |-> IntCell(Decimal(i)),
         plate |-> Text(normalize_plate(r.plate)),
         company |-> r.company,
         full |-> Text(full),
         first |-> Text(names[1]),
         rest |-> Text(names[2]),
         dl |-> Text(clean_license(r.dl)),
         nat |-> r.nat,
         gender |-> Text(clean_gender(r.gender)),
         mobile |-> Text(fix_mobile(r.mobile)),
         remarks |-> r.remarks]

\* The rows clean_data_us works on after steps 1 to 4.
SortedRows(df) ==
    LET named == [i \in DOMAIN df.rows |-> NameRow(df.rows[i])]
        kept == DropBlankRows(named)
    IN  SortRows([i \in DOMAIN kept |-> NormalizeNatRow(kept[i])])

\* clean_data_us(df) when it returns: the cleaned rows.
clean_data_us(df) ==
    LET sorted == SortedRows(df) IN
    [i \in DOMAIN sorted |-> FinishRow(sorted[i], i)]


-----------------------------------------------------------------------------
(* Workbooks.  A workbook is a sequence of sheets [name, cells]; cells is  *)
(* a function from <<row, column>> to the cell stored there.               *)

SheetName == "Visitor List"

SheetNames(wb) == {wb[i].name : i \in DOMAIN wb}

SheetIndex(wb, name) == CHOOSE i \in DOMAIN wb : wb[i].name = name

Max(S) == CHOOSE x \in S : \A y \in S : y <= x

\* ws.max_row and ws.max_column (1 for a sheet without cells)
MaxRow(cells) == IF DOMAIN cells = {} THEN 1 ELSE Max({rc[1] : rc \in DOMAIN cells})
MaxColumn(cells) == IF DOMAIN cells = {} THEN 1 ELSE Max({rc[2] : rc \in DOMAIN cells})

\* A sheet without cells.
NoCells == [rc \in {} |-> None]

\* ws.cell(row=r, column=c).value
CellAt(cells, r, c) == IF <<r, c>> \in DOMAIN cells THEN cells[<<r, c>>] ELSE None

\* pd.read_excel(uploaded, sheet_name="Visitor List"): the first row is the
\* header, every later row a data row; an empty cell reads as NaN.
read_excel(wb) ==
    LET cells == wb[SheetIndex(wb, SheetName)].cells
        nc == IF DOMAIN cells = {} THEN 0 ELSE MaxColumn(cells)
        nr == MaxRow(cells)
    IN  [ncols |-> nc,
         rows |-> [i \in 1..(nr - 1) |->
                     [c \in 1..nc |->
                        IF CellAt(cells, i + 1, c) = None THEN NaN
                        ELSE CellAt(cells, i + 1, c)]]]

\* A row of the cleaned frame as dataframe_to_rows yields it.
RowValues(r) ==
    <<r.sn, r.plate, r.company, r.full, r.first, r.rest, r.dl, r.nat,
      r.gender, r.mobile, r.remarks>>

\* ws.append of the header and of every row of df, onto an empty sheet.
GridCells(df) ==
    [rc \in (1..(Len(df) + 1)) \X (1..NumColumns) |->
        IF rc[1] = 1 THEN Lit(ColumnNames[rc[2]])
        ELSE RowValues(df[rc[1] - 1])[rc[2]]]

\* Columns G and F of the sheet.
dl_col_idx == 7
col_f_idx == 6

\* The loops starting at the header row, range(1, ws.max_row + 1).
CheckedRowsFromHeader(cells) == 1..MaxRow(cells)

\* The rows the two highlighting loops visit: range(2, ws.max_row + 1).
CheckedRows(cells) == 2..MaxRow(cells)

\* loop 5: str(cell.value).strip() if cell.value is not None else ""
LicenseText(c) == IF c = None THEN <<>> ELSE Strip(Str(c))

\* loop 6: str(cell.value).strip() if cell.value not in (None, "") else ""
NameText(c) == IF c \in {None, Text(<<>>)} THEN <<>> ELSE Strip(Str(c))

\* dl_pattern.match(value) for ^\d{4}$ on a stripped value
MatchesFourDigits(s) == Len(s) = 4 /\ \A i \in DOMAIN s : IsDigit(s[i])

\* The cells given invalid_fill by loops 5 and 6.
InvalidCells(cells) ==
    {<<r, dl_col_idx>> : r \in {q \in CheckedRows(cells) :
                                  ~MatchesFourDigits(LicenseText(CellAt(cells, q, dl_col_idx)))}}
    \cup
    {<<r, col_f_idx>> : r \in {q \in CheckedRows(cells) :
                                 NameText(CellAt(cells, q, col_f_idx)) = <<>>}}

\* s.split(";")
RECURSIVE SplitSemi(_, _)
SplitSemi(s, cur) ==
    IF s = <<>> THEN <<cur>>
    ELSE IF Head(s) = ";" THEN <<cur>> \o SplitSemi(Tail(s), <<>>)
    ELSE SplitSemi(Tail(s), Append(cur, Head(s)))

\* The plate tokens of one cell: [x.strip() for x in str(v).split(";") if x.strip()]
PlateTokens(c) ==
    LET parts == SplitSemi(Str(c), <<>>) IN
    {Strip(parts[i]) : i \in DOMAIN parts} \ {<<>>}

\* set(plates) over the non-missing cells of the plate column
AllPlates(df) ==
    UNION {PlateTokens(df[i].plate) : i \in {j \in DOMAIN df : ~IsNa(df[j].plate)}}

\* ";".join(sorted(S))
RECURSIVE JoinSorted(_)
JoinSorted(S) ==
    IF S = {} THEN <<>>
    ELSE LET m == CHOOSE x \in S : \A y \in S \ {x} : StrLess(x, y) IN
         IF S = {m} THEN m ELSE m \o <<";">> \o JoinSorted(S \ {m})

\* df["Company Full Name"].notna().sum()
TotalVisitors(df) == Cardinality({i \in DOMAIN df : ~IsNa(df[i].company)})

\* Blocks 7 and 8: the cells written under the grid, in column B.
SummaryCells(df, grid) ==
    LET plates == AllPlates(df)
        ins0 == MaxRow(grid) + 2
        ins == IF plates # {} THEN ins0 + 2 ELSE ins0
        vehicles == IF plates # {}
                    THEN (<<ins0, 2>> :> Lit("Vehicles")) @@
                         (<<ins0 + 1, 2>> :> Text(JoinSorted(plates)))
                    ELSE NoCells
    IN  vehicles @@ (<<ins, 2>> :> Lit("Total Visitors")) @@
        (<<ins + 1, 2>> :> IntCell(Decimal(TotalVisitors(df))))

\* A save that writes over the old sheet without emptying it first.
SavedWorkbookNoClear(df, wb) ==
    LET grid == GridCells(df)
        new == SummaryCells(df, grid) @@ grid
    IN  IF SheetName \in SheetNames(wb)
        THEN [wb EXCEPT ![SheetIndex(wb, SheetName)] =
                [name |-> SheetName, cells |-> new @@ @.cells]]
        ELSE Append(wb, [name |-> SheetName, cells |-> new])

\* The sheets of the workbook generate_visitor_only_us saves: the sheet
\* "Visitor List" is emptied (or created, last) and written; the others
\* are the loaded ones.
SavedWorkbook(df, wb) ==
    LET grid == GridCells(df)
        sheet == [name |-> SheetName, cells |-> SummaryCells(df, grid) @@ grid]
    IN  IF SheetName \in SheetNames(wb)
        THEN [wb EXCEPT ![SheetIndex(wb, SheetName)] = sheet]
        ELSE Append(wb, sheet)

\* company of the file name: the first data row's company, or "VisitorList"
FileCompany(df) ==
    LET company_cell == df.rows[1][3] IN
    IF ~IsNa(company_cell) /\ Strip(Str(company_cell)) # <<>>
    THEN Text(Strip(Str(company_cell)))
    ELSE Lit("VisitorList")

-----------------------------------------------------------------------------
(* The run of the upload handler.                                          *)

NoFrame == [ncols |-> 0, rows |-> <<>>]
NoDownload == [offered |-> FALSE, data |-> <<>>, company |-> NaN]

\* The state before the upload wb is processed.
Start(wb) ==
    /\ pc = "start"
    /\ uploaded = wb
    /\ raw_df = NoFrame
    /\ cleaned = <<>>
    /\ out_wb = <<>>
    /\ invalid = {}
    /\ has_errors = FALSE
    /\ download = NoDownload

\* An uncaught exception ends the script run: nothing after it executes.
Fail ==
    /\ pc' = "failed"
    /\ UNCHANGED <<uploaded, raw_df, cleaned, out_wb, invalid, has_errors, download>>

\* raw_df = pd.read_excel(uploaded, sheet_name="Visitor List")
ReadExcel ==
    /\ pc = "start"
    /\ \/ /\ SheetName \notin SheetNames(uploaded)
          /\ Fail
       \/ /\ SheetName \in SheetNames(uploaded)
          /\ raw_df' = read_excel(uploaded)
          /\ pc' = "read"
          /\ UNCHANGED <<uploaded, cleaned, out_wb, invalid, has_errors, download>>

\* cleaned = clean_data_us(raw_df).  With no row left after step 2, step 7
\* assigns an empty Series to two columns, which raises or assigns nothing
\* depending on the pandas release; the source pins none.
CleanDataUs ==
    /\ pc = "read"
    /\ \/ /\ RenameRaises(raw_df)
          /\ Fail
       \/ /\ ~RenameRaises(raw_df)
          /\ SortedRows(raw_df) = <<>>
          /\ Fail
       \/ /\ ~RenameRaises(raw_df)
          /\ cleaned' = clean_data_us(raw_df)
          /\ pc' = "cleaned"
          /\ UNCHANGED <<uploaded, raw_df, out_wb, invalid, has_errors, download>>

\* out_buf, has_errors = generate_visitor_only_us(cleaned, uploaded)
GenerateVisitorOnlyUs ==
    /\ pc = "cleaned"
    /\ out_wb' = SavedWorkbook(cleaned, uploaded)
    /\ invalid' = InvalidCells(GridCells(cleaned))
    /\ has_errors' = (InvalidCells(GridCells(cleaned)) # {})
    /\ pc' = "generated"
    /\ UNCHANGED <<uploaded, raw_df, cleaned, download>>

\* A download button that is rendered whether or not the run got through.
DownloadButtonAnyway ==
    /\ pc \in {"generated", "failed"}
    /\ download' = [offered |-> TRUE, data |-> out_wb, company |-> Lit("VisitorList")]
    /\ pc' = "done"
    /\ UNCHANGED <<uploaded, raw_df, cleaned, out_wb, invalid, has_errors>>

\* The file name is built from raw_df.iloc[0, 2] (an IndexError without a
\* data row), then st.download_button offers the buffer.
DownloadButton ==
    /\ pc = "generated"
    /\ \/ /\ raw_df.rows = <<>>
          /\ Fail
       \/ /\ raw_df.rows # <<>>
          /\ download' = [offered |-> TRUE, data |-> out_wb,
                          company |-> FileCompany(raw_df)]
          /\ pc' = "done"
          /\ UNCHANGED <<uploaded, raw_df, cleaned, out_wb, invalid, has_errors>>

Next == ReadExcel \/ CleanDataUs \/ GenerateVisitorOnlyUs \/ DownloadButton


-----------------------------------------------------------------------------
(* Uploads the specifications draw from.                                   *)

\* The cells of a sheet written row by row.
MakeCells(rows) ==
    [rc \in UNION {{<<r, c>> : c \in DOMAIN rows[r]} : r \in DOMAIN rows}
        |-> rows[rc[1]][rc[2]]]

Sheet(name, rows) == [name |-> name, cells |-> MakeCells(rows)]

\* A header row of n columns.
HeaderRow(n) ==
    [c \in 1..n |-> IF c <= NumColumns THEN Lit(ColumnNames[c]) ELSE Lit("Extra")]

\* A row cut or padded to n columns.
FitRow(r, n) == [c \in 1..n |-> IF c <= Len(r) THEN r[c] ELSE Text(<<"x">>)]

\* All sequences over S of length at most n.
RECURSIVE SeqsUpTo(_, _)
SeqsUpTo(S, n) ==
    IF n = 0 THEN {<<>>}
    ELSE LET shorter == SeqsUpTo(S, n - 1) IN
         shorter \cup {Append(q, x) : q \in shorter, x \in S}

Acme == <<"A","c","m","e">>
Beta == <<"B","e","t","a">>

\* A row with every field filled in and valid.
BaseRow ==
    <<IntCell(<<"7">>), Text(<<"A","B","1">>), Text(Acme),
      Text(<<"j","o","h","n"," ","s","m","i","t","h">>), NaN, NaN,
      Text(<<"1","2","3","4">>), Text(<<"u","s">>), Text(<<"m">>),
      Text(<<"1","2","3","4","5","6","7","8","9","0">>), NaN>>

\* A row with only S/N, company and remarks filled in.
BlankRow ==
    <<IntCell(<<"8">>), NaN, Text(Beta), NaN, NaN, NaN, NaN, NaN, NaN, NaN,
      Text(<<"n","o","t","e">>)>>

\* A second sheet of a workbook, with content of its own.
NotesSheet ==
    Sheet("Notes", << <<Text(<<"k","e","e","p">>), IntCell(<<"4","2">>)>>,
                      <<NaN, Text(<<"m","e">>)>> >>)

\* A workbook whose only sheet is "Visitor List" with the given data rows.
VisitorBook(rows) == <<Sheet(SheetName, <<HeaderRow(NumColumns)>> \o rows)>>

\* Uploads the run cannot process: no "Visitor List" sheet, too few
\* columns, no data row.
BadUploads ==
    { <<Sheet("Sheet1", <<HeaderRow(NumColumns), BaseRow>>)>>,
      <<Sheet(SheetName, <<HeaderRow(5), FitRow(BaseRow, 5)>>)>>,
      <<Sheet(SheetName, <<HeaderRow(NumColumns)>>)>> }

-----------------------------------------------------------------------------
(* Spec: whole runs over uploads of every shape.                           *)

\* Bounds of the uploads of Spec.
MaxCols == 12
MaxDataRows == 2

ShapeRows == {BaseRow, BlankRow, [BaseRow EXCEPT ![3] = NaN, ![7] = Text(<<"1","2">>)]}

\* A workbook with one sheet of n columns called name, after a sheet of
\* notes when extra.
ShapeUpload(extra, name, n, rows) ==
    (IF extra THEN <<NotesSheet>> ELSE <<>>) \o
    <<Sheet(name, (IF n = 0 THEN <<>> ELSE <<HeaderRow(n)>>) \o
                  [i \in DOMAIN rows |-> FitRow(rows[i], n)])>>

Init ==
    \/ \E wb \in BadUploads : Start(wb)
    \/ \E extra \in BOOLEAN, name \in {SheetName, "Sheet1"},
          n \in 0..MaxCols, rows \in SeqsUpTo(ShapeRows, MaxDataRows) :
          Start(ShapeUpload(extra, name, n, rows))

Spec == Init /\ [][Next]_vars


\* The upload has no sheet named "Visitor List".
SheetMissing(wb) == \A i \in DOMAIN wb : wb[i].name # SheetName

\* The "Visitor List" sheet has no cell in column 11 or beyond.
TooFewColumns(wb) ==
    /\ ~SheetMissing(wb)
    /\ \A i \in DOMAIN wb :
          wb[i].name = SheetName => \A rc \in DOMAIN wb[i].cells : rc[2] < NumColumns

\* C9: a run on a structurally invalid upload (no "Visitor List" sheet, or
\* fewer than 11 columns) can only end failed: it never reaches the cleaning
\* result, builds no workbook, offers no download, and the frame it read
\* keeps its too few columns; a failed run never offers a download, and a
\* download is offered only by a run that completed every step.
C9_NoArtifactOnFailure ==
    /\ pc = "failed" => ~download.offered
    /\ download.offered => pc = "done"
    /\ SheetMissing(uploaded) => pc \in {"start", "failed"} /\ raw_df = NoFrame
    /\ TooFewColumns(uploaded) =>
          /\ pc \in {"start", "read", "failed"}
          /\ raw_df.ncols < NumColumns
    /\ SheetMissing(uploaded) \/ TooFewColumns(uploaded) =>
          cleaned = <<>> /\ out_wb = <<>> /\ ~download.offered

\* C9 witness: a run on a sheet with data rows but fewer than 11 columns
\* has failed in clean_data_us.
C9_Witness ==
    /\ pc = "failed"
    /\ TooFewColumns(uploaded)
    /\ raw_df.rows # <<>>
    /\ raw_df.ncols \in 1..(NumColumns - 1)


-----------------------------------------------------------------------------
(* SpecFields: runs over one-row sheets in which one field varies.         *)

\* Bounds of the field values of SpecFields.
MaxAffix == 2
MaxTail == 3
MaxNameLen == 4

MobileCore == <<"1","2","3","4","5","6","7","8">>
MobileChars == {"0", "9", "-"}

MobileCells ==
    {Text(p \o MobileCore \o q) :
        p \in SeqsUpTo(MobileChars, MaxAffix), q \in SeqsUpTo(MobileChars, MaxAffix)}
    \cup {Text(q) : q \in SeqsUpTo(MobileChars \cup {"x"}, MaxAffix + 1)}
    \cup {FloatCell(MobileCore \o q) : q \in SeqsUpTo({"0", "9"}, MaxAffix)}
    \cup {IntCell(MobileCore \o q) : q \in SeqsUpTo({"0", "9"}, MaxAffix + 1)}
    \cup {NaN}

LicensePrefixes == {<<>>, <<"9","8">>, <<"A","6","6","5","5">>}
LicenseChars == {"7", "0", ".", "\n", "-"}

LicenseCells ==
    {Text(p \o q) : p \in LicensePrefixes, q \in SeqsUpTo(LicenseChars, MaxTail)}
    \cup {FloatCell(q) : q \in {<<"7">>, <<"1","2","3">>, <<"9","8","7","6","5">>, <<"1","0">>}}
    \cup {IntCell(q) : q \in {<<"7">>, <<"1","2","3","0">>, <<"9","8","7","6","5">>}}
    \cup {NaN}

NameChars == {"a", "B", " ", "\t"}

NameCells == {Text(q) : q \in SeqsUpTo(NameChars, MaxNameLen)} \cup {NaN}

\* What the sheet may hold in its First Name and Middle and Last Name columns.
SuppliedNames == {NaN, Text(<<"Z","e","d">>)}

\* A row with nothing but S/N and company outside the name columns.
BareRow == <<IntCell(<<"1">>), NaN, Text(Acme), NaN, NaN, NaN, NaN, NaN, NaN, NaN, NaN>>

FieldRows ==
    {[BaseRow EXCEPT ![10] = m] : m \in MobileCells}
    \cup {[BaseRow EXCEPT ![7] = d] : d \in LicenseCells}
    \cup {[r EXCEPT ![4] = n, ![5] = a, ![6] = a] :
            r \in {BaseRow, BareRow}, n \in NameCells, a \in SuppliedNames}

InitFields ==
    \/ \E wb \in BadUploads : Start(wb)
    \/ \E r \in FieldRows : Start(VisitorBook(<<r>>))

SpecFields == InitFields /\ [][Next]_vars

AllDigits(s) == \A i \in DOMAIN s : s[i] \in {"0","1","2","3","4","5","6","7","8","9"}

\* C1: in every row of the cleaned table the Mobile Number is exactly 10
\* digit characters and the Driver License Number is at most 4 characters,
\* all digits, whatever the raw cells held.
C1_CleanedFormats ==
    \A i \in DOMAIN cleaned :
        /\ cleaned[i].mobile.t = "str"
        /\ Len(cleaned[i].mobile.v) = 10
        /\ AllDigits(cleaned[i].mobile.v)
        /\ cleaned[i].dl.t = "str"
        /\ Len(cleaned[i].dl.v) <= 4
        /\ AllDigits(cleaned[i].dl.v)

\* C1 witness: a row whose raw Mobile Number cell was missing has been cleaned.
C1_Witness ==
    /\ pc = "cleaned"
    /\ Len(cleaned) = 1
    /\ IsNa(raw_df.rows[1][10])
    /\ ~AllDigits(Str(raw_df.rows[1][7]))

\* The rule of C2 applied to a digit string d.
C2_Rule(d) ==
    LET n == Len(d) IN
    IF n > 10 /\ \A i \in 11..n : d[i] = "0" THEN SubSeq(d, 1, 10)
    ELSE IF n > 10 THEN SubSeq(d, n - 9, n)
    ELSE IF n < 10 THEN [i \in 1..10 |-> IF i <= 10 - n THEN "0" ELSE d[i - (10 - n)]]
    ELSE d

\* The digit characters of a raw cell's text, in order.
RECURSIVE C2_Digits(_)
C2_Digits(s) ==
    IF s = <<>> THEN <<>>
    ELSE (IF AllDigits(<<Head(s)>>) THEN <<Head(s)>> ELSE <<>>) \o C2_Digits(Tail(s))

\* C2: the cleaned Mobile Number equals the reference rule on the digits d
\* of the raw cell: more than 10 digits ending in |d| - 10 zeros lose those
\* zeros, more than 10 digits otherwise keep the last 10, fewer than 10 are
\* left-padded with zeros, exactly 10 are kept.
C2_FixMobileRule ==
    (Len(raw_df.rows) = 1 /\ Len(cleaned) = 1) =>
        cleaned[1].mobile.v = C2_Rule(C2_Digits(Str(raw_df.rows[1][10])))

\* C2 witness: a number of more than 10 digits that ends in the surplus
\* zeros has been cleaned, by dropping them.
C2_Witness ==
    /\ pc = "cleaned"
    /\ Len(cleaned) = 1
    /\ LET d == C2_Digits(Str(raw_df.rows[1][10])) IN
          /\ Len(d) = 12
          /\ d[11] = "0" /\ d[12] = "0"
          /\ d[10] # "0"
          /\ cleaned[1].mobile.v = SubSeq(d, 1, 10)


\* The rule of C3 applied to a raw cell: missing is "", one trailing ".0"
\* is removed, non-digits are deleted, the last 4 digits are kept.
C3_Rule(d) ==
    LET s0 == IF IsNa(d) THEN <<>> ELSE Str(d)
        n0 == Len(s0)
        s1 == IF n0 >= 2 /\ s0[n0 - 1] = "." /\ s0[n0] = "0"
              THEN SubSeq(s0, 1, n0 - 2) ELSE s0
        s2 == C2_Digits(s1)
    IN  IF Len(s2) > 4 THEN SubSeq(s2, Len(s2) - 3, Len(s2)) ELSE s2

\* C3: the cleaned Driver License Number equals the rule of C3 on the raw
\* cell (missing as "", one trailing ".0" removed, non-digits deleted, last
\* 4 digits kept).
C3_LicenseRule ==
    (Len(raw_df.rows) = 1 /\ Len(cleaned) = 1) =>
        cleaned[1].dl.v = C3_Rule(raw_df.rows[1][7])

\* The rule of C3 holds of every raw value that does not end in ".0"
\* followed by a line break.
C3_LicenseRuleNoLineBreak ==
    (Len(raw_df.rows) = 1 /\ Len(cleaned) = 1
        /\ ~EndsWith(Str(raw_df.rows[1][7]), <<".","0","\n">>)) =>
        cleaned[1].dl.v = C3_Rule(raw_df.rows[1][7])

\* The first whitespace character of s, or 0.
C8_FirstWhitespace(s) ==
    IF \E i \in DOMAIN s : s[i] \in {" ", "\t", "\n"}
    THEN CHOOSE i \in DOMAIN s :
            s[i] \in {" ", "\t", "\n"} /\ \A j \in 1..(i-1) : s[j] \notin {" ", "\t", "\n"}
    ELSE 0

\* The first space character of s, or 0.
C8_FirstSpace(s) ==
    IF \E i \in DOMAIN s : s[i] = " "
    THEN CHOOSE i \in DOMAIN s : s[i] = " " /\ \A j \in 1..(i-1) : s[j] # " "
    ELSE 0

\* The split of s at position i (no split when i = 0).
C8_SplitAt(s, i) ==
    IF i = 0 THEN <<s, <<>>>>
    ELSE <<SubSeq(s, 1, i - 1), SubSeq(s, i + 1, Len(s))>>

\* The frame with the First Name and Middle and Last Name cells of every
\* row replaced by a and b.
C8_WithSupplied(df, a, b) ==
    [df EXCEPT !.rows = [i \in DOMAIN df.rows |->
                            [df.rows[i] EXCEPT ![5] = a, ![6] = b]]]

C8_Supplied == {NaN, Text(<<"Q"," ","R">>)}

\* The rows step 2 keeps, by position.
C8_KeptRows(df) == {i \in DOMAIN df.rows : KeepRow(NameRow(df.rows[i]))}

\* C8 as stated: (First Name, Middle and Last Name) of every cleaned row is
\* the split of the trimmed title-cased Full Name at its first whitespace
\* character, and the supplied First Name / Middle and Last Name cells never
\* affect the output.
C8_SplitAtWhitespace ==
    (pc = "cleaned") =>
        /\ \A i \in DOMAIN cleaned :
              LET s == Strip(cleaned[i].full.v) IN
              <<cleaned[i].first.v, cleaned[i].rest.v>> =
                  C8_SplitAt(s, C8_FirstWhitespace(s))
        /\ \A a \in C8_Supplied, b \in C8_Supplied :
              clean_data_us(C8_WithSupplied(raw_df, a, b)) = cleaned

\* C8 amended: the split is at the first space character (a name whose only
\* whitespace is tabs or line breaks is not split), and the supplied cells
\* do not affect the output as long as they leave the same rows kept (they
\* take part in the blank-row test of step 2 only).
C8_SplitAtSpace ==
    (pc = "cleaned") =>
        /\ \A i \in DOMAIN cleaned :
              LET s == Strip(cleaned[i].full.v) IN
              <<cleaned[i].first.v, cleaned[i].rest.v>> =
                  C8_SplitAt(s, C8_FirstSpace(s))
        /\ \A a \in C8_Supplied, b \in C8_Supplied :
              LET alt == C8_WithSupplied(raw_df, a, b) IN
              C8_KeptRows(alt) = C8_KeptRows(raw_df) =>
                  clean_data_us(alt) = cleaned

\* C8 witness: a name with two spaces in a row was split at the first one,
\* and the sheet supplied other values for the two name columns.
C8_Witness ==
    /\ pc = "cleaned"
    /\ Len(cleaned) = 1
    /\ cleaned[1].full.v = <<"A"," "," ","B">>
    /\ cleaned[1].first.v = <<"A">>
    /\ cleaned[1].rest.v = <<" ","B">>
    /\ raw_df.rows[1][5] = Text(<<"Z","e","d">>)
    /\ raw_df.rows[1][6] = Text(<<"Z","e","d">>)


-----------------------------------------------------------------------------
(* SpecDrop: runs over two-row sheets, one row fully filled in and one     *)
(* with every combination of empty and filled cells.                       *)

\* A row with every cell filled in.
FullRow ==
    <<IntCell(<<"3">>), Text(<<"C","D","2">>), Text(Beta),
      Text(<<"a","m","y"," ","l","e","e">>), Text(<<"a","m","y">>),
      Text(<<"l","e","e">>), Text(<<"5","6","7","8">>), Text(<<"i","n","d","i","a","n">>),
      Text(<<"f">>), Text(<<"9","8","7","6","5","4","3","2","1","0">>),
      Text(<<"v","i","p">>)>>

\* FullRow with the cells outside S emptied.
OnlyCells(S) == [c \in 1..NumColumns |-> IF c \in S THEN FullRow[c] ELSE NaN]

\* A cell that holds text of whitespace only: not empty, not missing.
SpaceCell == Text(<<" ">>)

DropRows ==
    {OnlyCells(S) : S \in SUBSET (1..NumColumns)}
    \cup {[OnlyCells({1, 3}) EXCEPT ![c] = SpaceCell] : c \in 1..NumColumns}

InitDrop ==
    \/ \E wb \in BadUploads : Start(wb)
    \/ \E r \in DropRows : Start(VisitorBook(<<r, FullRow>>))
    \/ \E r \in DropRows : Start(VisitorBook(<<FullRow, r>>))

SpecDrop == InitDrop /\ [][Next]_vars

\* Whether C5 keeps a raw row: some cell of Full Name .. Mobile Number
\* (positions 4 to 10) is not missing.
C5_Kept(r) == \E c \in 4..10 : r[c] # NaN

\* The cleaned Mobile Number of a raw row whose cell is missing or holds
\* ten digits already.
C5_Mobile(r) ==
    IF r[10] = NaN THEN <<"0","0","0","0","0","0","0","0","0","0">>
    ELSE IF r[10] = SpaceCell THEN <<"0","0","0","0","0","0","0","0","0","0">>
    ELSE r[10].v

\* Whether cleaned row out comes from raw row r.
C5_From(out, r) ==
    /\ out.company = r[3]
    /\ out.remarks = r[11]
    /\ out.mobile.v = C5_Mobile(r)

\* C5: a row is removed exactly when all seven cells Full Name .. Mobile
\* Number are missing; S/N, Vehicle Plate Number, Company Full Name and
\* Remarks play no part.
C5_DropRule ==
    (pc = "cleaned") =>
        /\ Len(cleaned) = Cardinality({i \in DOMAIN raw_df.rows : C5_Kept(raw_df.rows[i])})
        /\ \A i \in DOMAIN raw_df.rows :
              C5_Kept(raw_df.rows[i]) <=>
                  \E j \in DOMAIN cleaned : C5_From(cleaned[j], raw_df.rows[i])

\* C5 witness: a row with S/N, plate, company and remarks filled in and the
\* seven other cells empty was removed, the other row kept.
C5_Witness ==
    /\ pc = "cleaned"
    /\ Len(raw_df.rows) = 2
    /\ Len(cleaned) = 1
    /\ \E i \in DOMAIN raw_df.rows :
          /\ raw_df.rows[i] = OnlyCells({1, 2, 3, 11})
          /\ ~C5_From(cleaned[1], raw_df.rows[i])


-----------------------------------------------------------------------------
(* SpecSort: runs over sheets of a few rows that differ in the sort        *)
(* columns.                                                                *)

\* Bound of the sheets of SpecSort.
MaxSortRows == 3

\* A row of company c, nationality n, full name f and remarks k.
SortRow(c, n, f, k) == [BaseRow EXCEPT ![3] = c, ![8] = n, ![4] = f, ![11] = k]

Name_alice == Text(<<"a","l","i","c","e">>)
Name_Bob == Text(<<"B","o","b">>)
Nat_us == Text(<<"u","s">>)

SortPool ==
    { SortRow(Text(Beta), Text(<<"U","S">>), Text(<<"b","o","b">>), NaN),
      SortRow(Text(Acme), Nat_us, Name_Bob, NaN),
      SortRow(Text(Acme), Text(<<" ","U","S","A">>), Name_Bob, Text(<<"t","w","i","n">>)),
      SortRow(Text(Acme), Nat_us, Name_alice, NaN),
      SortRow(Text(Acme), Text(<<"C","h","i","n","a">>), Name_alice, NaN),
      SortRow(NaN, Text(<<"c","h","i","n","e","s","e">>), Name_Bob, NaN),
      SortRow(Text(<<"a","c","m","e">>), Nat_us, NaN, NaN),
      BlankRow }

InitSort ==
    \/ \E wb \in BadUploads : Start(wb)
    \/ \E rows \in SeqsUpTo(SortPool, MaxSortRows) : Start(VisitorBook(rows))

SpecSort == InitSort /\ [][Next]_vars

\* The sort key of C6 for a raw row: company and full name as supplied,
\* nationality normalized.
C6_Key(r) == <<r[3], Text(normalize_nationality(r[8])), r[4]>>

\* x <= y for two cells of a key: texts in case-sensitive string order, a
\* missing value after every text.
C6_CellLE(x, y) ==
    IF y = NaN THEN TRUE
    ELSE IF x = NaN THEN FALSE
    ELSE x.v = y.v \/ StrLess(x.v, y.v)

\* k1 <= k2, lexicographically.
C6_KeyLE(k1, k2) ==
    \/ k1[1] # k2[1] /\ C6_CellLE(k1[1], k2[1])
    \/ k1[1] = k2[1] /\ k1[2] # k2[2] /\ C6_CellLE(k1[2], k2[2])
    \/ k1[1] = k2[1] /\ k1[2] = k2[2] /\ C6_CellLE(k1[3], k2[3])

\* The raw rows that are not dropped, in input order.
C6_KeptRows(df) == SelectSeq(df.rows, C5_Kept)

\* The bijections of 1..n.
C6_Perms(n) == {p \in [1..n -> 1..n] : \A i, j \in 1..n : p[i] = p[j] => i = j}

\* Whether cleaned row out is the cleaned form of raw row r: the fields the
\* cleaning passes through or title-cases identify it.
C6_From(out, r) ==
    /\ out.company = r[3]
    /\ out.remarks = r[11]
    /\ out.nat.v = normalize_nationality(r[8])
    /\ out.full.v = StrTitle(Str(r[4]))

\* Whether out is kept listed in the order p, ascending by key, rows of
\* equal key in input order, numbered from 1.
C6_SortedBy(out, kept, p) ==
    /\ \A j \in DOMAIN out :
          C6_From(out[j], kept[p[j]]) /\ out[j].sn = IntCell(Decimal(j))
    /\ \A j, k \in DOMAIN out :
          j < k => /\ C6_KeyLE(C6_Key(kept[p[j]]), C6_Key(kept[p[k]]))
                   /\ C6_Key(kept[p[j]]) = C6_Key(kept[p[k]]) => p[j] < p[k]

\* The frame with its rows listed in the order p.
C6_Permuted(df, p) == [df EXCEPT !.rows = [i \in DOMAIN df.rows |-> df.rows[p[i]]]]

C6_DistinctKeys(rows) ==
    \A i, j \in DOMAIN rows : C6_Key(rows[i]) = C6_Key(rows[j]) => i = j

\* C6: the cleaned rows are the kept input rows in ascending order of
\* (Company Full Name, normalized Nationality, Full Name as supplied),
\* compared as case-sensitive strings, rows of equal key in input order;
\* and when the kept rows have pairwise distinct keys, every reordering of
\* the input gives the same output.
C6_StableSort ==
    (pc = "cleaned") =>
        LET kept == C6_KeptRows(raw_df) IN
        /\ Len(cleaned) = Len(kept)
        /\ \E p \in C6_Perms(Len(kept)) : C6_SortedBy(cleaned, kept, p)
        /\ C6_DistinctKeys(kept) =>
              \A p \in C6_Perms(Len(raw_df.rows)) :
                  clean_data_us(C6_Permuted(raw_df, p)) = cleaned

\* C6 witness: three rows were reordered, "Bob" before "alice" within one
\* company and nationality, and two rows of equal key kept their input order.
C6_Witness ==
    /\ pc = "cleaned"
    /\ Len(cleaned) = 3
    /\ raw_df.rows[1][4] = Name_alice /\ raw_df.rows[1][8] = Nat_us
    /\ raw_df.rows[2][11] = Text(<<"t","w","i","n">>)
    /\ raw_df.rows[3] = SortRow(Text(Acme), Nat_us, Name_Bob, NaN)
    /\ cleaned[1].remarks = Text(<<"t","w","i","n">>)
    /\ cleaned[2].full.v = <<"B","o","b">> /\ cleaned[2].remarks = NaN
    /\ cleaned[3].full.v = <<"A","l","i","c","e">>


\* A cleaned table as the frame a second clean_data_us call receives.
C10_AsFrame(rows) ==
    [ncols |-> NumColumns, rows |-> [i \in DOMAIN rows |-> RowValues(rows[i])]]

\* The key the second call sorts by: the name is the title-cased one.
C10_Key(r) == <<r.company, r.nat, r.full>>

\* C10 as stated: cleaning the cleaned table returns it unchanged, in row
\* order, S/N and every field.
C10_Idempotent ==
    (pc = "cleaned") => clean_data_us(C10_AsFrame(cleaned)) = cleaned

\* C10 amended: cleaning the cleaned table returns the same rows with every
\* field other than S/N unchanged, listed in ascending order of (Company
\* Full Name, Nationality, title-cased Full Name), rows of equal key in the
\* order of the first result, and renumbered; so the result is unchanged
\* whenever the first result is already in that order.
C10_IdempotentUpToOrder ==
    (pc = "cleaned") =>
        LET twice == clean_data_us(C10_AsFrame(cleaned)) IN
        /\ Len(twice) = Len(cleaned)
        /\ \E p \in C6_Perms(Len(cleaned)) :
              /\ \A j \in DOMAIN twice :
                    twice[j] = [cleaned[p[j]] EXCEPT !.sn = IntCell(Decimal(j))]
              /\ \A j, k \in DOMAIN twice :
                    j < k =>
                      /\ C6_KeyLE(C10_Key(cleaned[p[j]]), C10_Key(cleaned[p[k]]))
                      /\ C10_Key(cleaned[p[j]]) = C10_Key(cleaned[p[k]]) => p[j] < p[k]
        /\ (\A j, k \in DOMAIN cleaned :
                j < k => C6_KeyLE(C10_Key(cleaned[j]), C10_Key(cleaned[k])))
              => twice = cleaned

\* C10 witness: a cleaned table lists "Bob" before "Alice" (the raw names
\* were "Bob" and "alice"), and cleaning it again swaps the two rows.
C10_Witness ==
    /\ pc = "cleaned"
    /\ Len(cleaned) = 2
    /\ cleaned[1].full.v = <<"B","o","b">>
    /\ cleaned[2].full.v = <<"A","l","i","c","e">>
    /\ cleaned[1].company = cleaned[2].company
    /\ cleaned[1].nat = cleaned[2].nat
    /\ clean_data_us(C10_AsFrame(cleaned))[1].full.v = <<"A","l","i","c","e">>


-----------------------------------------------------------------------------
(* SpecGen: generate_visitor_only_us on a cleaned table and a workbook     *)
(* that has, or has not, a "Visitor List" sheet already.                   *)

\* Bound of the tables of SpecGen.
MaxGenRows == 2

GenPool ==
    { BaseRow,
      [BaseRow EXCEPT ![7] = Text(<<"1","2","3">>),
                      ![2] = Text(<<"C","D","2"," ","/"," ","A","B","1">>)],
      [BaseRow EXCEPT ![4] = Text(<<"m","a","d","o","n","n","a">>), ![2] = NaN],
      [BaseRow EXCEPT ![7] = FloatCell(<<"1","2","3","4","5">>), ![3] = NaN],
      [BaseRow EXCEPT ![7] = NaN, ![4] = Text(<<"a","\t","b">>)],
      [BaseRow EXCEPT ![4] = Text(<<"j","o"," "," ","d","e">>), ![2] = NaN],
      BlankRow }

\* A "Visitor List" sheet as uploaded: 12 columns, 3 data rows.
OldVisitorSheet ==
    Sheet(SheetName, <<HeaderRow(NumColumns + 1),
                       FitRow(FullRow, NumColumns + 1),
                       FitRow(BaseRow, NumColumns + 1),
                       FitRow(BlankRow, NumColumns + 1)>>)

GenWorkbooks ==
    { <<OldVisitorSheet>>,
      <<NotesSheet, OldVisitorSheet>>,
      <<OldVisitorSheet, NotesSheet>>,
      <<NotesSheet>>,
      <<NotesSheet, Sheet("Sheet1", <<HeaderRow(NumColumns), BaseRow>>)>> }

InitGen ==
    \E wb \in GenWorkbooks, rows \in SeqsUpTo(GenPool, MaxGenRows) :
        /\ pc = "cleaned"
        /\ uploaded = wb
        /\ raw_df = [ncols |-> NumColumns, rows |-> rows]
        /\ cleaned = clean_data_us([ncols |-> NumColumns, rows |-> rows])
        /\ out_wb = <<>>
        /\ invalid = {}
        /\ has_errors = FALSE
        /\ download = NoDownload

NextGen == GenerateVisitorOnlyUs \/ DownloadButton

SpecGen == InitGen /\ [][NextGen]_vars

\* Exactly 4 digit characters.
C4_FourDigits(s) == Len(s) = 4 /\ AllDigits(s)

\* Empty after trimming.
C4_Blank(s) == \A i \in DOMAIN s : s[i] \in {" ", "\t", "\n"}

\* The data rows whose license is not 4 digits / whose name remainder is blank.
C4_BadLicense == {i \in DOMAIN cleaned : ~C4_FourDigits(cleaned[i].dl.v)}
C4_BadName == {i \in DOMAIN cleaned : C4_Blank(cleaned[i].rest.v)}

\* C4: has_errors is true exactly when some data row has a Driver License
\* Number that is not 4 digits or a blank Middle and Last Name; the cells
\* given the invalid fill are exactly those cells (data row i is sheet row
\* i + 1, columns G and F), so no header cell, summary cell or other column
\* is ever flagged.
C4_FlagIffInvalidCell ==
    (pc \in {"generated", "done"}) =>
        /\ has_errors <=> (C4_BadLicense # {} \/ C4_BadName # {})
        /\ invalid = {<<i + 1, 7>> : i \in C4_BadLicense} \cup
                     {<<i + 1, 6>> : i \in C4_BadName}

\* C4 witness: of two data rows, one has a 3-digit license and a name
\* remainder and only its license cell is filled; the flag is set.
C4_Witness ==
    /\ pc = "generated"
    /\ Len(cleaned) = 2
    /\ has_errors
    /\ \E i \in DOMAIN cleaned :
          /\ Len(cleaned[i].dl.v) = 3
          /\ <<i + 1, 7>> \in invalid
          /\ <<i + 1, 6>> \notin invalid
    /\ Cardinality(invalid) = 1

\* The "Visitor List" sheet of the saved workbook.
C7_VisitorCells == out_wb[CHOOSE i \in DOMAIN out_wb : out_wb[i].name = SheetName].cells

\* Whether the cell at rc of the saved sheet is a header cell, a cell of a
\* cleaned row, or a cell of the summary blocks under the grid.
C7_Accounted(cells, rc) ==
    LET n == Len(cleaned) IN
    \/ rc[1] = 1 /\ rc[2] \in 1..11 /\ cells[rc] = Lit(ColumnNames[rc[2]])
    \/ rc[1] \in 2..(n + 1) /\ rc[2] \in 1..11
         /\ cells[rc] = RowValues(cleaned[rc[1] - 1])[rc[2]]
    \/ rc[1] \in (n + 3)..(n + 6) /\ rc[2] = 2
         /\ \/ cells[rc] \in {Lit("Vehicles"), Lit("Total Visitors")}
            \/ cells[rc].t = "int"
            \/ cells[<<rc[1] - 1, 2>>] = Lit("Vehicles")

\* C7: the saved workbook has the sheets of the upload, same names and
\* cells, in the same places, plus "Visitor List" when the upload had none;
\* the "Visitor List" sheet holds the header, the cleaned rows and the
\* summary blocks and no other cell.
C7_OnlyVisitorListChanges ==
    (pc \in {"generated", "done"}) =>
        /\ \A i \in DOMAIN uploaded :
              /\ i \in DOMAIN out_wb
              /\ out_wb[i].name = uploaded[i].name
              /\ uploaded[i].name # SheetName => out_wb[i] = uploaded[i]
        /\ Len(out_wb) = Len(uploaded) + (IF SheetMissing(uploaded) THEN 1 ELSE 0)
        /\ Cardinality({i \in DOMAIN out_wb : out_wb[i].name = SheetName}) = 1
        /\ \A rc \in DOMAIN C7_VisitorCells : C7_Accounted(C7_VisitorCells, rc)
        /\ \A r \in 1..(Len(cleaned) + 1), c \in 1..11 : <<r, c>> \in DOMAIN C7_VisitorCells
        /\ \E rc \in DOMAIN C7_VisitorCells : C7_VisitorCells[rc] = Lit("Total Visitors")

\* C7 witness: a workbook with a notes sheet and a "Visitor List" sheet of
\* more rows and columns than the cleaned table was saved.
C7_Witness ==
    /\ pc = "generated"
    /\ uploaded = <<NotesSheet, OldVisitorSheet>>
    /\ Len(cleaned) = 1
    /\ out_wb[1] = NotesSheet
    /\ <<4, 12>> \in DOMAIN uploaded[2].cells
    /\ <<4, 12>> \notin DOMAIN out_wb[2].cells

=============================================================================
